---- MODULE Spec2Model ----
(***************************************************************************)
(* TaskTrek backend: the board controller (src/src/controllers/            *)
(* boardController.js) over the document store, with the team and board    *)
(* membership sets, columns and tasks it is specified against.             *)
(*                                                                         *)
(* Every request handler is one action.  A request's principal is the id   *)
(* authenticateToken puts in req.user.id; its other inputs are drawn from   *)
(* small sets.  The last response is kept in `res`.                        *)
(***************************************************************************)
EXTENDS Integers, FiniteSets, Sequences, TLC

\* ------------------------------------------------------------------ bounds
MaxTeams == 1
MaxBoards == 1
MaxColumns == 1
MaxTasks == 1
MaxMembers == 1

\* ------------------------------------------------------------- input sets
\* Authenticated principals (req.user.id).
Users == {"U1", "U2"}

\* Roles in the authorization ordering; "none" is the absent role.
Roles == {"owner", "admin", "member", "viewer"}
GrantableRoles == {"admin", "member", "viewer"}

\* JavaScript's undefined in a string-typed request field.
Undefined == "undefined"

\* The names a create request carries, and the values of an update body.
CreateNames == {"n1"}
UpdateNames == {Undefined, "", "n2"}
UpdateDescriptions == {Undefined, "d1"}

\* Identifiers in requests are integers: k >= 1 is the k-th ObjectId the
\* store handed out for the collection (well-formed, existing or not),
\* 0 is an absent/empty (falsy) value, -1 is a string that is no ObjectId.
IdInputs(max) == (-1) .. max

VARIABLES
  teams,    \* Team collection: id -> [owner, members]
  boards,   \* Board collection: id -> [name, description, team, createdBy, members]
  columns,  \* Column collection: id -> [board]
  tasks,    \* Task collection: id -> [column]
  nextId,   \* ids handed out so far, per collection (ObjectIds are never reused)
  res,      \* the last response: [op, user, id, status, data]
  users,    \* User collection: id -> [email, username, password, refreshToken,
            \*                         resetPasswordToken, resetPasswordExpire]
  clock,    \* [now |-> Date.now() in minutes, ticks |-> how often it advanced]
  issued,   \* the token pairs handed to clients, each as [id, iat]
  calls     \* the requests between two store operations, per connection

\* The variables of the authentication controller.
authVars == <<users, clock, issued>>

\* The collections of the board hierarchy.
storeVars == <<teams, boards, columns, tasks>>

vars == <<teams, boards, columns, tasks, nextId, res, users, clock, issued,
         calls>>

\* Requests that can be in flight at once, and a connection with none.
MaxCalls == 2
Idle == [pc |-> "idle"]

\* ---------------------------------------------------------------- helpers
\* f with key k bound to v (Document Store create).
Put(f, k, v) == [x \in DOMAIN f \cup {k} |-> IF x = k THEN v ELSE f[x]]

\* f without key k (Document Store delete).
Drop(f, k) == [x \in DOMAIN f \ {k} |-> f[x]]

\* A value is truthy in `team || teamId` and `if (!teamIdentifier)`.
truthy(v) == v # 0

\* Mongoose casts the argument of findById to an ObjectId and rejects
\* (CastError) when it cannot.
isObjectId(v) == v >= 1

Response(op, user, id, status, data) ==
  [op |-> op, user |-> user, id |-> id, status |-> status, data |-> data]

Init ==
  /\ teams = <<>>
  /\ boards = <<>>
  /\ columns = <<>>
  /\ tasks = <<>>
  /\ nextId = [team |-> 1, board |-> 1, column |-> 1, task |-> 1,
               user |-> 1, nonce |-> 1]
  /\ res = Response("none", 0, 0, 0, {})
  /\ users = <<>>
  /\ clock = [now |-> 0, ticks |-> 0]
  /\ issued = {}
  /\ calls = [i \in 1 .. MaxCalls |-> Idle]

\* ------------------------------------------------- Membership Authority
\* resolveRole(principal, team): owner, else the members entry, else none.
resolveRoleTeam(p, t) ==
  IF t \notin DOMAIN teams THEN "none"
  ELSE IF teams[t].owner = p THEN "owner"
  ELSE IF p \in DOMAIN teams[t].members THEN teams[t].members[p]
  ELSE "none"

\* resolveRole(principal, board): the board's own members entry, else none.
resolveRoleBoard(p, b) ==
  IF b \notin DOMAIN boards THEN "none"
  ELSE IF p \in DOMAIN boards[b].members THEN boards[b].members[p]
  ELSE "none"

\* The role the Mutation Gate uses for a board target: the board's
\* membership entry, else the role on the owning team.
effectiveRole(p, b) ==
  IF resolveRoleBoard(p, b) # "none" THEN resolveRoleBoard(p, b)
  ELSE IF b \in DOMAIN boards THEN resolveRoleTeam(p, boards[b].team)
  ELSE "none"

\* owner > admin > member > viewer (> none).
roleRank(r) ==
  CASE r = "owner" -> 4
    [] r = "admin" -> 3
    [] r = "member" -> 2
    [] r = "viewer" -> 1
    [] OTHER -> 0

\* The policy table: the minimum role an operation requires.
minRole(operation) ==
  CASE operation = "read" -> "viewer"
    [] operation = "create-child" -> "member"
    [] operation = "update" -> "member"
    [] operation = "delete" -> "admin"
    [] operation = "manage-members" -> "admin"
    [] operation = "change-role" -> "admin"
    [] OTHER -> "owner"

authorize(role, operation) == roleRank(role) >= roleRank(minRole(operation))

\* ------------------------------------------------------------ team routes
\* POST /api/teams: the caller becomes the owner.
createTeam(p) ==
  /\ nextId.team <= MaxTeams
  /\ teams' = Put(teams, nextId.team, [owner |-> p, members |-> <<>>])
  /\ nextId' = [nextId EXCEPT !.team = @ + 1]
  /\ res' = Response("createTeam", p, nextId.team, 201, {})
  /\ UNCHANGED <<boards, columns, tasks>>
  /\ UNCHANGED <<authVars, calls>>

\* POST /api/teams/:id/members: manage-members on the team, the target
\* not yet a member.
addTeamMember(p, t, q, role) ==
  /\ IF t \notin DOMAIN teams
       THEN /\ res' = Response("addTeamMember", p, t, 404, {})
            /\ UNCHANGED teams
     ELSE IF ~authorize(resolveRoleTeam(p, t), "manage-members")
       THEN /\ res' = Response("addTeamMember", p, t, 403, {})
            /\ UNCHANGED teams
     ELSE IF resolveRoleTeam(q, t) # "none"
       THEN /\ res' = Response("addTeamMember", p, t, 400, {})
            /\ UNCHANGED teams
     ELSE /\ Cardinality(DOMAIN teams[t].members) < MaxMembers
          /\ teams' = [teams EXCEPT ![t].members = Put(@, q, role)]
          /\ res' = Response("addTeamMember", p, t, 200, {})
  /\ UNCHANGED <<boards, columns, tasks, nextId>>
  /\ UNCHANGED <<authVars, calls>>

\* DELETE /api/teams/:id: delete on the team.  The team goes first, then
\* its boards with their columns and tasks, one after the other; a cascade
\* that fails part-way leaves the boards in `kept` behind and is answered
\* as a partial failure.
deleteTeam(p, t, kept) ==
  /\ IF t \notin DOMAIN teams
       THEN /\ res' = Response("deleteTeam", p, t, 404, {})
            /\ UNCHANGED <<teams, boards, columns, tasks>>
     ELSE IF ~authorize(resolveRoleTeam(p, t), "delete")
       THEN /\ res' = Response("deleteTeam", p, t, 403, {})
            /\ UNCHANGED <<teams, boards, columns, tasks>>
     ELSE LET gone == {b \in DOMAIN boards : boards[b].team = t} \ kept
              goneColumns == {c \in DOMAIN columns : columns[c].board \in gone}
          IN /\ kept \subseteq {b \in DOMAIN boards : boards[b].team = t}
             /\ teams' = Drop(teams, t)
             /\ boards' = [b \in DOMAIN boards \ gone |-> boards[b]]
             /\ columns' = [c \in DOMAIN columns \ goneColumns |-> columns[c]]
             /\ tasks' = [k \in {x \in DOMAIN tasks :
                                   tasks[x].column \notin goneColumns} |-> tasks[k]]
             /\ res' = Response("deleteTeam", p, t,
                                IF kept = {} THEN 200 ELSE 500, kept)
  /\ UNCHANGED nextId
  /\ UNCHANGED <<authVars, calls>>

\* ----------------------------------------- board members, columns, tasks
\* POST /api/boards/:id/members: manage-members on the board, the target
\* not yet a member of the board.
addBoardMember(p, b, q, role) ==
  /\ IF b \notin DOMAIN boards
       THEN /\ res' = Response("addBoardMember", p, b, 404, {})
            /\ UNCHANGED boards
     ELSE IF ~authorize(effectiveRole(p, b), "manage-members")
       THEN /\ res' = Response("addBoardMember", p, b, 403, {})
            /\ UNCHANGED boards
     ELSE IF resolveRoleBoard(q, b) # "none"
       THEN /\ res' = Response("addBoardMember", p, b, 400, {})
            /\ UNCHANGED boards
     ELSE /\ Cardinality(DOMAIN boards[b].members) < MaxMembers
          /\ boards' = [boards EXCEPT ![b].members = Put(@, q, role)]
          /\ res' = Response("addBoardMember", p, b, 200, {})
  /\ UNCHANGED <<teams, columns, tasks, nextId>>
  /\ UNCHANGED <<authVars, calls>>

\* POST /api/boards/:id/columns: the parent board exists and the caller
\* may create-child on it.
createColumn(p, b) ==
  /\ IF b \notin DOMAIN boards
       THEN /\ res' = Response("createColumn", p, b, 404, {})
            /\ UNCHANGED <<columns, nextId>>
     ELSE IF ~authorize(effectiveRole(p, b), "create-child")
       THEN /\ res' = Response("createColumn", p, b, 403, {})
            /\ UNCHANGED <<columns, nextId>>
     ELSE /\ nextId.column <= MaxColumns
          /\ columns' = Put(columns, nextId.column, [board |-> b])
          /\ nextId' = [nextId EXCEPT !.column = @ + 1]
          /\ res' = Response("createColumn", p, nextId.column, 201, {})
  /\ UNCHANGED <<teams, boards, tasks>>
  /\ UNCHANGED <<authVars, calls>>

\* The position past the end of column c: max existing position + 1.
endPosition(ts, c) ==
  LET taken == {ts[x].position : x \in {y \in DOMAIN ts : ts[y].column = c}}
  IN IF taken = {} THEN 0
     ELSE (CHOOSE m \in taken : \A n \in taken : n <= m) + 1

\* POST /api/tasks (columnId in body): the parent column exists and the
\* caller may create-child on the column's board.  The task is open,
\* unassigned and last in its column.
createTask(p, c) ==
  /\ IF c \notin DOMAIN columns
       THEN /\ res' = Response("createTask", p, c, 404, {})
            /\ UNCHANGED <<tasks, nextId>>
     ELSE IF ~authorize(effectiveRole(p, columns[c].board), "create-child")
       THEN /\ res' = Response("createTask", p, c, 403, {})
            /\ UNCHANGED <<tasks, nextId>>
     ELSE /\ tasks' = Put(tasks, nextId.task,
                          [column |-> c, position |-> endPosition(tasks, c),
                           completed |-> FALSE, assignee |-> Undefined])
          /\ nextId' = [nextId EXCEPT !.task = @ + 1]
          /\ res' = Response("createTask", p, nextId.task, 201, {})
  /\ UNCHANGED <<teams, boards, columns>>
  /\ UNCHANGED <<authVars, calls>>

\* ----------------------------------------------------------- createBoard
createBoard(p, name, description, team, teamId) ==
  LET teamIdentifier == IF truthy(team) THEN team ELSE teamId IN
  /\ IF ~truthy(teamIdentifier)
       THEN /\ res' = Response("createBoard", p, teamIdentifier, 400, {})
            /\ UNCHANGED <<boards, nextId>>
     ELSE IF ~isObjectId(teamIdentifier)
       THEN /\ res' = Response("createBoard", p, teamIdentifier, 500, {})
            /\ UNCHANGED <<boards, nextId>>
     ELSE IF teamIdentifier \notin DOMAIN teams
       THEN /\ res' = Response("createBoard", p, teamIdentifier, 404, {})
            /\ UNCHANGED <<boards, nextId>>
     ELSE /\ nextId.board <= MaxBoards
          /\ boards' = Put(boards, nextId.board,
                           [name |-> name, description |-> description,
                            team |-> teamIdentifier, createdBy |-> p,
                            members |-> <<>>])
          /\ nextId' = [nextId EXCEPT !.board = @ + 1]
          /\ res' = Response("createBoard", p, nextId.board, 201, {})
  /\ UNCHANGED <<teams, columns, tasks>>
  /\ UNCHANGED <<authVars, calls>>

\* ------------------------------------------------------------- getBoards
\* Board.find({ $or: [{ createdBy: req.user.id }] }); the answer is kept
\* as the set of the boards returned.
getBoards(p) ==
  /\ res' = Response("getBoards", p, 0, 200,
                     {b \in DOMAIN boards : boards[b].createdBy = p})
  /\ UNCHANGED <<teams, boards, columns, tasks, nextId>>
  /\ UNCHANGED <<authVars, calls>>

\* The handlers' inline check: board.createdBy.toString() === req.user.id.
isCreator(board, p) == board.createdBy = p

\* ---------------------------------------------------------- getBoardById
getBoardById(p, id) ==
  /\ IF ~isObjectId(id)
       THEN res' = Response("getBoardById", p, id, 500, {})
     ELSE IF id \notin DOMAIN boards
       THEN res' = Response("getBoardById", p, id, 404, {})
     ELSE IF ~isCreator(boards[id], p)
       THEN res' = Response("getBoardById", p, id, 403, {})
     ELSE res' = Response("getBoardById", p, id, 200, {id})
  /\ UNCHANGED <<teams, boards, columns, tasks, nextId>>
  /\ UNCHANGED <<authVars, calls>>

\* ----------------------------------------------------------- updateBoard
\* Every field of the body copied onto the document.
updateFields_assignBody(board, body) ==
  [board EXCEPT
     !.name = IF body.name # Undefined /\ body.name # "" THEN body.name ELSE @,
     !.description = IF body.description # Undefined THEN body.description ELSE @,
     !.team = IF body.team # 0 THEN body.team ELSE @,
     !.createdBy = IF body.createdBy # Undefined THEN body.createdBy ELSE @]

\* if (name) board.name = name;
\* if (description !== undefined) board.description = description;
updateFields(board, body) ==
  [board EXCEPT
     !.name = IF body.name # Undefined /\ body.name # "" THEN body.name ELSE @,
     !.description = IF body.description # Undefined THEN body.description ELSE @]

updateBoard(p, id, body) ==
  /\ IF ~isObjectId(id)
       THEN /\ res' = Response("updateBoard", p, id, 500, {})
            /\ UNCHANGED boards
     ELSE IF id \notin DOMAIN boards
       THEN /\ res' = Response("updateBoard", p, id, 404, {})
            /\ UNCHANGED boards
     ELSE IF ~isCreator(boards[id], p)
       THEN /\ res' = Response("updateBoard", p, id, 403, {})
            /\ UNCHANGED boards
     ELSE /\ boards' = [boards EXCEPT ![id] = updateFields(@, body)]
          /\ res' = Response("updateBoard", p, id, 200, {id})
  /\ UNCHANGED <<teams, columns, tasks, nextId>>
  /\ UNCHANGED <<authVars, calls>>

\* ----------------------------------------------------------- deleteBoard
deleteBoard(p, id) ==
  /\ IF ~isObjectId(id)
       THEN /\ res' = Response("deleteBoard", p, id, 500, {})
            /\ UNCHANGED boards
     ELSE IF id \notin DOMAIN boards
       THEN /\ res' = Response("deleteBoard", p, id, 404, {})
            /\ UNCHANGED boards
     ELSE IF ~isCreator(boards[id], p)
       THEN /\ res' = Response("deleteBoard", p, id, 403, {})
            /\ UNCHANGED boards
     ELSE /\ boards' = Drop(boards, id)
          /\ res' = Response("deleteBoard", p, id, 200, {})
  /\ UNCHANGED <<teams, columns, tasks, nextId>>
  /\ UNCHANGED <<authVars, calls>>

\* ------------------------------------------------------- getBoardsByTeam
getBoardsByTeam(p, teamId) ==
  /\ IF ~isObjectId(teamId)
       THEN res' = Response("getBoardsByTeam", p, teamId, 500, {})
     ELSE res' = Response("getBoardsByTeam", p, teamId, 200,
                          {b \in DOMAIN boards : boards[b].team = teamId})
  /\ UNCHANGED <<teams, boards, columns, tasks, nextId>>
  /\ UNCHANGED <<authVars, calls>>

\* ------------------------------------------------------------- the system
\* Path parameters: a non-empty string, an ObjectId (of a document that
\* exists, existed or never did) or not.
PathIds(max) == {-1} \cup (1 .. max)

\* A PATCH /api/boards/:id body; team and createdBy are fields a caller
\* may send although the handler reads name and description only.
UpdateBodies ==
  [name : UpdateNames, description : UpdateDescriptions,
   team : 0 .. (MaxTeams + 1), createdBy : {Undefined, "U2"}]

Next ==
  \/ \E p \in Users : createTeam(p)
  \/ \E p \in Users, t \in 1 .. MaxTeams, q \in Users, role \in GrantableRoles :
       addTeamMember(p, t, q, role)
  \/ \E p \in Users, t \in 1 .. MaxTeams, kept \in SUBSET (1 .. MaxBoards) :
       deleteTeam(p, t, kept)
  \/ \E p \in Users, b \in 1 .. MaxBoards, q \in Users, role \in GrantableRoles :
       addBoardMember(p, b, q, role)
  \/ \E p \in Users, b \in 1 .. MaxBoards : createColumn(p, b)
  \/ \E p \in Users, c \in 1 .. MaxColumns :
       nextId.task <= MaxTasks /\ createTask(p, c)
  \/ \E p \in Users, name \in CreateNames, description \in {Undefined},
        team \in IdInputs(MaxTeams), teamId \in IdInputs(MaxTeams) :
       createBoard(p, name, description, team, teamId)
  \/ \E p \in Users : getBoards(p)
  \/ \E p \in Users, id \in PathIds(MaxBoards) : getBoardById(p, id)
  \/ \E p \in Users, id \in PathIds(MaxBoards), body \in UpdateBodies :
       updateBoard(p, id, body)
  \/ \E p \in Users, id \in PathIds(MaxBoards) : deleteBoard(p, id)
  \/ \E p \in Users, teamId \in PathIds(MaxTeams) : getBoardsByTeam(p, teamId)

Spec == Init /\ [][Next]_vars

\* ============================================ authentication controller
MaxUsers == 2
MaxResets == 1
MaxTicks == 1

\* expiresIn: '15m', expiresIn: '7d' and 15 * 60 * 1000 ms, in minutes.
AccessTokenMinutes == 15
RefreshTokenMinutes == 10080
ResetExpireMinutes == 15

\* Request fields of the authentication routes; "" is a missing field.
\* The fixed e-mail and password of loginGold.
GoldEmail == "gold@x"
GoldPassword == "Goldexcool@001"
Emails == {"", "a@x", GoldEmail}
GoldPasswords == {"password1", GoldPassword}
Usernames == {"", "a", "b"}
SignupPasswords == {"", "password1"}
LoginPasswords == {"password1", "password2"}
ResetPasswords == {"", "short", "password2"}

\* jwt.sign({ id }, secret, { expiresIn }): the payload carries the id and
\* the time of issue, so two tokens signed for one user at one time are
\* the same string.  kind tells the secret: "access", "refresh"; "forged"
\* is a string no secret signed, "undefined" a missing field.
Token(kind, id, iat) == [kind |-> kind, id |-> id, iat |-> iat]
generateAccessToken(userId) == Token("access", userId, clock.now)
generateRefreshToken(userId) == Token("refresh", userId, clock.now)
NoToken == Token("undefined", 0, 0)
ForgedToken == Token("forged", 1, 0)

\* jwt.verify(token, secret): signed with that secret and not expired.
jwtVerify(token, kind, minutes) ==
  token.kind = kind /\ clock.now < token.iat + minutes

\* The tokens a client can present: none, a forged one, and the ones issued.
AccessTokenInputs ==
  {NoToken, ForgedToken} \cup {Token("access", x.id, x.iat) : x \in issued}
     \cup {Token("refresh", x.id, x.iat) : x \in issued}
RefreshTokenInputs ==
  {NoToken, ForgedToken} \cup {Token("refresh", x.id, x.iat) : x \in issued}

\* bcrypt.hash / bcrypt.compare, and the sha256 digest of a reset token.
bcryptHash(password) == <<"bcrypt", password>>
bcryptCompare(password, hash) == hash = bcryptHash(password)
sha256(token) == <<"sha256", token>>
NoHash == <<"undefined", 0>>

\* User.findOne(filter): the first stored of the users the filter matches,
\* 0 when there is none.
findUser(matching) ==
  IF matching # {}
    THEN CHOOSE u \in matching : \A v \in matching : u <= v
    ELSE 0

\* Time passes.
Tick(d) ==
  /\ clock.ticks < MaxTicks
  /\ clock' = [now |-> clock.now + d, ticks |-> clock.ticks + 1]
  /\ UNCHANGED <<storeVars, calls, nextId, res, users, issued>>

\* ---------------------------------------------------------------- signup
signup(username, email, password, mailOk) ==
  LET existing(u) == users[u].email = email \/ users[u].username = username
      id == nextId.user
  IN
  /\ IF username = "" \/ email = "" \/ password = ""
       THEN /\ res' = Response("signup", 0, 0, 400, {})
            /\ UNCHANGED <<users, issued, nextId>>
     ELSE IF findUser({u \in DOMAIN users : existing(u)}) # 0
       THEN /\ res' = Response("signup", 0, 0, 400, {})
            /\ UNCHANGED <<users, issued, nextId>>
     ELSE /\ id <= MaxUsers
          /\ users' = Put(users, id,
                          [email |-> email, username |-> username,
                           password |-> bcryptHash(password),
                           refreshToken |-> NoToken,
                           resetPasswordToken |-> NoHash,
                           resetPasswordExpire |-> -1])
          /\ nextId' = [nextId EXCEPT !.user = @ + 1]
          /\ issued' = issued \cup {[id |-> id, iat |-> clock.now]}
          /\ res' = Response("signup", id, 0, 201, {})
  /\ UNCHANGED <<storeVars, calls, clock>>

\* ----------------------------------------------------------------- login
login(email, password) ==
  LET byEmail(u) == users[u].email = email
      id == findUser({u \in DOMAIN users : byEmail(u)})
  IN
  /\ IF id = 0
       THEN /\ res' = Response("login", 0, 0, 401, {})
            /\ UNCHANGED <<users, issued>>
     ELSE IF ~bcryptCompare(password, users[id].password)
       THEN /\ res' = Response("login", id, 0, 401, {})
            /\ UNCHANGED <<users, issued>>
     ELSE /\ users' = [users EXCEPT ![id].refreshToken = generateRefreshToken(id)]
          /\ issued' = issued \cup {[id |-> id, iat |-> clock.now]}
          /\ res' = Response("login", id, 0, 200, {})
  /\ UNCHANGED <<storeVars, calls, nextId, clock>>

\* ------------------------------------------------------------- loginGold
\* The user is looked up by the fixed e-mail and the password of the
\* request is compared with the fixed one, not with the stored hash.
loginGold(password) ==
  LET byEmail(u) == users[u].email = GoldEmail
      id == findUser({u \in DOMAIN users : byEmail(u)})
  IN
  /\ IF id = 0
       THEN /\ res' = Response("loginGold", 0, 0, 401, {})
            /\ UNCHANGED <<users, issued>>
     ELSE IF password # GoldPassword
       THEN /\ res' = Response("loginGold", id, 0, 401, {})
            /\ UNCHANGED <<users, issued>>
     ELSE /\ users' = [users EXCEPT ![id].refreshToken = generateRefreshToken(id)]
          /\ issued' = issued \cup {[id |-> id, iat |-> clock.now]}
          /\ res' = Response("loginGold", id, 0, 200, {})
  /\ UNCHANGED <<storeVars, calls, nextId, clock>>

\* --------------------------------------------------- refreshTokenHandler
refreshTokenHandler(refreshToken) ==
  LET holder(u) == u = refreshToken.id /\ users[u].refreshToken = refreshToken
      id == findUser({u \in DOMAIN users : holder(u)})
  IN
  /\ IF refreshToken = NoToken
       THEN /\ res' = Response("refreshToken", 0, 0, 401, {})
            /\ UNCHANGED <<users, issued>>
     ELSE IF ~jwtVerify(refreshToken, "refresh", RefreshTokenMinutes)
       THEN /\ res' = Response("refreshToken", 0, 0, 403, {})
            /\ UNCHANGED <<users, issued>>
     ELSE IF id = 0
       THEN /\ res' = Response("refreshToken", 0, 0, 403, {})
            /\ UNCHANGED <<users, issued>>
     ELSE /\ users' = [users EXCEPT ![id].refreshToken = generateRefreshToken(id)]
          /\ issued' = issued \cup {[id |-> id, iat |-> clock.now]}
          /\ res' = Response("refreshToken", id, 0, 200, {})
  /\ UNCHANGED <<storeVars, calls, nextId, clock>>

\* ---------------------------------------------------------------- logout
\* User.findOneAndUpdate({ refreshToken }, { refreshToken: null }); a
\* missing body field reaches the store as null and matches a user whose
\* refresh token is unset, which the update leaves unset.
clearRefreshToken_keeps(refreshToken) == users

clearRefreshToken(refreshToken) ==
  LET holder(u) == users[u].refreshToken = refreshToken
      id == findUser({u \in DOMAIN users : holder(u)})
  IN IF id = 0 THEN users
     ELSE [users EXCEPT ![id].refreshToken = NoToken]

\* res.id is the token of the request body.
logout(p, refreshToken) ==
  LET holder(u) == users[u].refreshToken = refreshToken IN
  /\ users' = clearRefreshToken(refreshToken)
  /\ res' = Response("logout", p, refreshToken, 200,
                     IF findUser({u \in DOMAIN users : holder(u)}) = 0 THEN {"Logged out"}
                     ELSE {"Logged out successfully"})
  /\ UNCHANGED <<storeVars, calls, nextId, clock, issued>>

\* -------------------------------------------------------- forgotPassword
forgotPassword(email, mailOk) ==
  LET byEmail(u) == users[u].email = email
      id == findUser({u \in DOMAIN users : byEmail(u)})
      resetToken == nextId.nonce
  IN
  /\ IF email = ""
       THEN /\ res' = Response("forgotPassword", 0, 0, 400, {})
            /\ UNCHANGED <<users, nextId>>
     ELSE IF id = 0
       THEN /\ res' = Response("forgotPassword", 0, 0, 404, {})
            /\ UNCHANGED <<users, nextId>>
     ELSE /\ nextId' = [nextId EXCEPT !.nonce = @ + 1]
          /\ IF mailOk
               THEN /\ users' = [users EXCEPT
                         ![id].resetPasswordToken = sha256(resetToken),
                         ![id].resetPasswordExpire = clock.now + ResetExpireMinutes]
                    /\ res' = Response("forgotPassword", id, 0, 200, {})
               ELSE /\ users' = [users EXCEPT
                         ![id].resetPasswordToken = NoHash,
                         ![id].resetPasswordExpire = -1]
                    /\ res' = Response("forgotPassword", id, 0, 500, {})
  /\ UNCHANGED <<storeVars, calls, clock, issued>>

\* --------------------------------------------------------- resetPassword
\* The user the reset token selects: the stored hash is the token's and
\* the stored expiry is later than now.
resetTokenUser_ignoresExpiry(token) ==
  LET valid(u) == users[u].resetPasswordToken = sha256(token)
  IN findUser({u \in DOMAIN users : valid(u)})

resetTokenUser(token) ==
  LET valid(u) == /\ users[u].resetPasswordToken = sha256(token)
                  /\ users[u].resetPasswordExpire > clock.now
  IN findUser({u \in DOMAIN users : valid(u)})

\* The user document after the reset: the new hash, the reset fields
\* cleared.
passwordReset_keepsToken(user, password) ==
  [user EXCEPT !.password = bcryptHash(password)]

passwordReset(user, password) ==
  [user EXCEPT !.password = bcryptHash(password),
               !.resetPasswordToken = NoHash,
               !.resetPasswordExpire = -1]

\* res.id is the token of the path.
resetPassword(token, password, mailOk) ==
  LET id == resetTokenUser(token) IN
  /\ IF password = ""
       THEN /\ res' = Response("resetPassword", 0, token, 400,
                               {"Please provide token and new password"})
            /\ UNCHANGED users
     ELSE IF id = 0
       THEN /\ res' = Response("resetPassword", 0, token, 400,
                               {"Invalid or expired token"})
            /\ UNCHANGED users
     ELSE IF Len(password) < 8
       THEN /\ res' = Response("resetPassword", id, token, 400,
                               {"Password must be at least 8 characters long"})
            /\ UNCHANGED users
     ELSE /\ users' = [users EXCEPT ![id] = passwordReset(@, password)]
          /\ res' = Response("resetPassword", id, token,
                             IF mailOk THEN 200 ELSE 500, {})
  /\ UNCHANGED <<storeVars, calls, nextId, clock, issued>>

\* ----------------------------------------- authenticateToken, then getMe
\* What the middleware does with the token of the authorization header:
\* 401, 403, or 0 for next().
authenticateToken_nextOnError(token) ==
  IF token = NoToken THEN 401 ELSE 0

authenticateToken(token) ==
  IF token = NoToken THEN 401
  ELSE IF ~jwtVerify(token, "access", AccessTokenMinutes) THEN 403
  ELSE 0

\* GET /api/auth/me: res.user is req.user.id, res.data tells whether the
\* handler ran.
getMe(token) ==
  /\ IF authenticateToken(token) # 0
       THEN res' = Response("getMe", 0, 0, authenticateToken(token), {})
       ELSE res' = Response("getMe", token.id, 0,
                            IF token.id \in DOMAIN users THEN 200 ELSE 404,
                            {"getMe"})
  /\ UNCHANGED <<storeVars, calls, nextId, users, clock, issued>>

NextAuth ==
  \/ \E d \in {1, ResetExpireMinutes, RefreshTokenMinutes} : Tick(d)
  \/ \E username \in Usernames, email \in Emails, password \in SignupPasswords,
        mailOk \in BOOLEAN :
       signup(username, email, password, mailOk)
  \/ \E email \in Emails, password \in LoginPasswords : login(email, password)
  \/ \E password \in GoldPasswords : loginGold(password)
  \/ \E refreshToken \in RefreshTokenInputs : refreshTokenHandler(refreshToken)
  \/ \E p \in DOMAIN users, refreshToken \in RefreshTokenInputs :
       logout(p, refreshToken)
  \/ \E email \in Emails, mailOk \in BOOLEAN :
       nextId.nonce <= MaxResets /\ forgotPassword(email, mailOk)
  \/ \E token \in 0 .. MaxResets, password \in ResetPasswords, mailOk \in BOOLEAN :
       resetPassword(token, password, mailOk)
  \/ \E token \in AccessTokenInputs : getMe(token)

SpecAuth == Init /\ [][NextAuth]_vars

\* The password reset routes, with a second reset token.
MaxResetTokens == 2

NextReset ==
  \/ \E d \in {1, ResetExpireMinutes} : Tick(d)
  \/ \E username \in Usernames, email \in Emails, password \in SignupPasswords,
        mailOk \in BOOLEAN :
       signup(username, email, password, mailOk)
  \/ \E email \in Emails, mailOk \in BOOLEAN :
       nextId.nonce <= MaxResetTokens /\ forgotPassword(email, mailOk)
  \/ \E token \in 0 .. MaxResetTokens, password \in ResetPasswords,
        mailOk \in BOOLEAN :
       resetPassword(token, password, mailOk)

SpecReset == Init /\ [][NextReset]_vars

\* ------------------------------------------- signup, store call by call
\* The User collection keeps email and username unique: User.create of a
\* document that shares one with a stored user fails.
duplicateKey_never(us, email, username) == FALSE

duplicateKey(us, email, username) ==
  \E u \in DOMAIN us : us[u].email = email \/ us[u].username = username

\* signup up to its User.findOne: the request is answered 400, or goes on
\* to User.create with the body it came with.
signupFindOne(i, username, email, password) ==
  LET existing(u) == users[u].email = email \/ users[u].username = username IN
  /\ calls[i] = Idle
  /\ IF username = "" \/ email = "" \/ password = ""
       THEN /\ res' = Response("signup", 0, 0, 400, {})
            /\ UNCHANGED calls
     ELSE IF findUser({u \in DOMAIN users : existing(u)}) # 0
       THEN /\ res' = Response("signup", 0, 0, 400, {})
            /\ UNCHANGED calls
     ELSE /\ calls' = [calls EXCEPT ![i] =
                         [pc |-> "User.create", username |-> username,
                          email |-> email, password |-> password]]
          /\ UNCHANGED res
  /\ UNCHANGED <<storeVars, nextId, users, clock, issued>>

\* signup from its User.create on: a duplicate key is thrown into the
\* catch and answered 500; else the user is stored and answered 201,
\* whether the welcome e-mail went out or not.
signupCreate(i, mailOk) ==
  LET body == calls[i]
      id == nextId.user
  IN
  /\ calls[i].pc = "User.create"
  /\ calls' = [calls EXCEPT ![i] = Idle]
  /\ IF duplicateKey(users, body.email, body.username)
       THEN /\ res' = Response("signup", 0, 0, 500, {})
            /\ UNCHANGED <<users, issued, nextId>>
     ELSE /\ id <= MaxUsers
          /\ users' = Put(users, id,
                          [email |-> body.email, username |-> body.username,
                           password |-> bcryptHash(body.password),
                           refreshToken |-> NoToken,
                           resetPasswordToken |-> NoHash,
                           resetPasswordExpire |-> -1])
          /\ nextId' = [nextId EXCEPT !.user = @ + 1]
          /\ issued' = issued \cup {[id |-> id, iat |-> clock.now]}
          /\ res' = Response("signup", id, 0, 201, {})
  /\ UNCHANGED <<storeVars, clock>>

NextSignup ==
  \/ \E i \in 1 .. MaxCalls, username \in Usernames, email \in Emails,
        password \in SignupPasswords :
       signupFindOne(i, username, email, password)
  \/ \E i \in 1 .. MaxCalls, mailOk \in BOOLEAN : signupCreate(i, mailOk)

SpecSignup == Init /\ [][NextSignup]_vars

\* ------------------------- updateBoard and deleteBoard, store call by call
\* The paths of the loaded document that the handler's assignments changed.
modifiedPaths(loaded, doc) ==
  {f \in {"name", "description"} : doc[f] # loaded[f]}

\* board.save() of a loaded document: an update of the modified paths of
\* the stored document with that id; it creates nothing.
savedBoards_upsert(bs, id, doc, paths) == Put(bs, id, doc)

savedBoards(bs, id, doc, paths) ==
  IF id \in DOMAIN bs
    THEN [bs EXCEPT ![id] = [f \in DOMAIN @ |->
                               IF f \in paths THEN doc[f] ELSE @[f]]]
    ELSE bs

\* updateBoard up to board.save(): answered 500, 404 or 403, or the
\* document is loaded and the fields of the body are assigned to it.
updateBoardFindById(i, p, id, body) ==
  /\ calls[i] = Idle
  /\ IF ~isObjectId(id)
       THEN /\ res' = Response("updateBoard", p, id, 500, {})
            /\ UNCHANGED calls
     ELSE IF id \notin DOMAIN boards
       THEN /\ res' = Response("updateBoard", p, id, 404, {})
            /\ UNCHANGED calls
     ELSE IF ~isCreator(boards[id], p)
       THEN /\ res' = Response("updateBoard", p, id, 403, {})
            /\ UNCHANGED calls
     ELSE /\ calls' = [calls EXCEPT ![i] =
                         [pc |-> "board.save", user |-> p, id |-> id,
                          doc |-> updateFields(boards[id], body),
                          paths |-> modifiedPaths(boards[id],
                                      updateFields(boards[id], body))]]
          /\ UNCHANGED res
  /\ UNCHANGED <<storeVars, nextId, authVars>>

\* updateBoard from board.save() on.  With a modified path save() updates
\* the stored document and throws DocumentNotFoundError into the catch
\* when the update matched none.  With no modified path it writes nothing;
\* whether it then looks the document up and throws the same error
\* (existsCheck) depends on the version of the library.
updateBoardSave(i, existsCheck) ==
  LET call == calls[i]
      after == savedBoards(boards, call.id, call.doc, call.paths)
  IN
  /\ calls[i].pc = "board.save"
  /\ calls' = [calls EXCEPT ![i] = Idle]
  /\ IF call.paths = {}
       THEN /\ res' = Response("updateBoard", call.user, call.id,
                               IF existsCheck /\ call.id \notin DOMAIN boards
                                 THEN 500 ELSE 200,
                               IF existsCheck /\ call.id \notin DOMAIN boards
                                 THEN {} ELSE {call.id})
            /\ UNCHANGED boards
     ELSE IF call.id \notin DOMAIN after
       THEN /\ res' = Response("updateBoard", call.user, call.id, 500, {})
            /\ UNCHANGED boards
     ELSE /\ boards' = after
          /\ res' = Response("updateBoard", call.user, call.id, 200, {call.id})
  /\ UNCHANGED <<teams, columns, tasks, nextId, authVars>>

\* deleteBoard up to Board.deleteOne.
deleteBoardFindById(i, p, id) ==
  /\ calls[i] = Idle
  /\ IF ~isObjectId(id)
       THEN /\ res' = Response("deleteBoard", p, id, 500, {})
            /\ UNCHANGED calls
     ELSE IF id \notin DOMAIN boards
       THEN /\ res' = Response("deleteBoard", p, id, 404, {})
            /\ UNCHANGED calls
     ELSE IF ~isCreator(boards[id], p)
       THEN /\ res' = Response("deleteBoard", p, id, 403, {})
            /\ UNCHANGED calls
     ELSE /\ calls' = [calls EXCEPT ![i] =
                         [pc |-> "Board.deleteOne", user |-> p, id |-> id]]
          /\ UNCHANGED res
  /\ UNCHANGED <<storeVars, nextId, authVars>>

\* deleteBoard from Board.deleteOne({ _id }) on: whether a document was
\* deleted or not, the answer is 200.
deleteBoardDeleteOne(i) ==
  LET call == calls[i] IN
  /\ calls[i].pc = "Board.deleteOne"
  /\ calls' = [calls EXCEPT ![i] = Idle]
  /\ boards' = IF call.id \in DOMAIN boards THEN Drop(boards, call.id)
               ELSE boards
  /\ res' = Response("deleteBoard", call.user, call.id, 200, {})
  /\ UNCHANGED <<teams, columns, tasks, nextId, authVars>>

NextRace ==
  \/ \E p \in Users : createTeam(p)
  \/ \E p \in Users, name \in CreateNames :
       createBoard(p, name, Undefined, 1, 0)
  \/ \E i \in 1 .. MaxCalls, p \in Users, id \in PathIds(MaxBoards),
        body \in UpdateBodies :
       updateBoardFindById(i, p, id, body)
  \/ \E i \in 1 .. MaxCalls, existsCheck \in BOOLEAN :
       updateBoardSave(i, existsCheck)
  \/ \E i \in 1 .. MaxCalls, p \in Users, id \in PathIds(MaxBoards) :
       deleteBoardFindById(i, p, id)
  \/ \E i \in 1 .. MaxCalls : deleteBoardDeleteOne(i)

SpecRace == Init /\ [][NextRace]_vars

\* ================================================ team membership routes
\* The role a request may name; "owner" is asked for, never granted here.
RequestedRoles == Roles

\* DELETE /api/teams/:id/members/:userId: manage-members, or the caller
\* removing themself; the owner is not removed.
removeTeamMember_ownerLeaves(p, t, q) ==
  /\ IF t \notin DOMAIN teams
       THEN /\ res' = Response("removeTeamMember", p, t, 404, {})
            /\ UNCHANGED teams
     ELSE IF q = teams[t].owner /\ p # q
       THEN /\ res' = Response("removeTeamMember", p, t, 403, {})
            /\ UNCHANGED teams
     ELSE IF q = teams[t].owner
       THEN /\ teams' = [teams EXCEPT ![t].owner = "none"]
            /\ res' = Response("removeTeamMember", p, t, 200, {})
     ELSE IF q \notin DOMAIN teams[t].members
       THEN /\ res' = Response("removeTeamMember", p, t, 400, {})
            /\ UNCHANGED teams
     ELSE IF p # q /\ ~authorize(resolveRoleTeam(p, t), "manage-members")
       THEN /\ res' = Response("removeTeamMember", p, t, 403, {})
            /\ UNCHANGED teams
     ELSE /\ teams' = [teams EXCEPT ![t].members = Drop(@, q)]
          /\ res' = Response("removeTeamMember", p, t, 200, {})
  /\ UNCHANGED <<boards, columns, tasks, nextId, authVars, calls>>

removeTeamMember(p, t, q) ==
  /\ IF t \notin DOMAIN teams
       THEN /\ res' = Response("removeTeamMember", p, t, 404, {})
            /\ UNCHANGED teams
     ELSE IF q = teams[t].owner
       THEN /\ res' = Response("removeTeamMember", p, t, 403, {})
            /\ UNCHANGED teams
     ELSE IF q \notin DOMAIN teams[t].members
       THEN /\ res' = Response("removeTeamMember", p, t, 400, {})
            /\ UNCHANGED teams
     ELSE IF p # q /\ ~authorize(resolveRoleTeam(p, t), "manage-members")
       THEN /\ res' = Response("removeTeamMember", p, t, 403, {})
            /\ UNCHANGED teams
     ELSE /\ teams' = [teams EXCEPT ![t].members = Drop(@, q)]
          /\ res' = Response("removeTeamMember", p, t, 200, {})
  /\ UNCHANGED <<boards, columns, tasks, nextId, authVars, calls>>

\* PUT /api/teams/:id/members/:userId/role: change-role; the owner's
\* role is not modified, and the caller grants no role above their own.
changeRole(p, t, q, role) ==
  /\ IF t \notin DOMAIN teams
       THEN /\ res' = Response("changeRole", p, t, 404, {})
            /\ UNCHANGED teams
     ELSE IF ~authorize(resolveRoleTeam(p, t), "change-role")
       THEN /\ res' = Response("changeRole", p, t, 403, {})
            /\ UNCHANGED teams
     ELSE IF q = teams[t].owner
       THEN /\ res' = Response("changeRole", p, t, 403, {})
            /\ UNCHANGED teams
     ELSE IF q \notin DOMAIN teams[t].members
       THEN /\ res' = Response("changeRole", p, t, 400, {})
            /\ UNCHANGED teams
     ELSE IF roleRank(role) > roleRank(resolveRoleTeam(p, t))
       THEN /\ res' = Response("changeRole", p, t, 403, {})
            /\ UNCHANGED teams
     ELSE IF role \notin GrantableRoles
       THEN /\ res' = Response("changeRole", p, t, 400, {})
            /\ UNCHANGED teams
     ELSE /\ teams' = [teams EXCEPT ![t].members[q] = role]
          /\ res' = Response("changeRole", p, t, 200, {})
  /\ UNCHANGED <<boards, columns, tasks, nextId, authVars, calls>>

\* PUT /api/teams/:id/transfer-ownership: owner only.  The new owner is
\* a member by being the owner and keeps no members entry; the previous
\* owner keeps no role.
transferOwnership(p, t, q) ==
  /\ IF t \notin DOMAIN teams
       THEN /\ res' = Response("transferOwnership", p, t, 404, {})
            /\ UNCHANGED teams
     ELSE IF ~authorize(resolveRoleTeam(p, t), "transfer-ownership")
       THEN /\ res' = Response("transferOwnership", p, t, 403, {})
            /\ UNCHANGED teams
     ELSE /\ teams' = [teams EXCEPT ![t].owner = q,
                                    ![t].members = Drop(@, q)]
          /\ res' = Response("transferOwnership", p, t, 200, {})
  /\ UNCHANGED <<boards, columns, tasks, nextId, authVars, calls>>

NextTeams ==
  \/ \E p \in Users : createTeam(p)
  \/ \E p, q \in Users, t \in 1 .. MaxTeams, role \in GrantableRoles :
       addTeamMember(p, t, q, role)
  \/ \E p, q \in Users, t \in 1 .. MaxTeams : removeTeamMember(p, t, q)
  \/ \E p, q \in Users, t \in 1 .. MaxTeams, role \in RequestedRoles :
       changeRole(p, t, q, role)
  \/ \E p, q \in Users, t \in 1 .. MaxTeams : transferOwnership(p, t, q)

SpecTeams == Init /\ [][NextTeams]_vars

\* ============================================================ task routes
MaxSiblings == 3
MaxPosition == 4

\* targetPosition of a move request; Omitted when the body carries none.
Omitted == -1
\* Column ids of a request: the two columns, and an id no column has.
ColumnInputs == {1, 2, 3}
PositionInputs == {Omitted} \cup (0 .. (MaxPosition - 2))

\* The store after U1 created a team, a board in it and two columns on
\* the board; U2 has no role on either.
InitTasks ==
  /\ teams = Put(<<>>, 1, [owner |-> "U1", members |-> <<>>])
  /\ boards = Put(<<>>, 1, [name |-> "n1", description |-> Undefined,
                            team |-> 1, createdBy |-> "U1",
                            members |-> <<>>])
  /\ columns = [c \in {1, 2} |-> [board |-> 1]]
  /\ tasks = <<>>
  /\ nextId = [team |-> 2, board |-> 2, column |-> 3, task |-> 1,
               user |-> 1, nonce |-> 1]
  /\ res = Response("createColumn", "U1", 2, 201, {})
  /\ users = <<>>
  /\ clock = [now |-> 0, ticks |-> 0]
  /\ issued = {}
  /\ calls = [i \in 1 .. MaxCalls |-> Idle]

\* The role of p on the board that owns task k's column.
taskRole(p, c) ==
  IF c \in DOMAIN columns THEN effectiveRole(p, columns[c].board) ELSE "none"

\* The tasks after task k went to column c: at the end when the position
\* is omitted; else at `position`, the other tasks of c at or after it
\* shifted by one.  The source column is not renumbered.
movedTasks_shiftsAll(ts, k, c, position) ==
  LET placed == [ts EXCEPT ![k].column = c, ![k].position = position]
  IN IF position = Omitted
       THEN [ts EXCEPT ![k].column = c,
                       ![k].position = endPosition(Drop(ts, k), c)]
       ELSE [x \in DOMAIN ts |->
               IF placed[x].column = c /\ placed[x].position >= position
                 THEN [placed[x] EXCEPT !.position = @ + 1]
                 ELSE placed[x]]

movedTasks(ts, k, c, position) ==
  LET others == Drop(ts, k)
  IN IF position = Omitted
       THEN [ts EXCEPT ![k].column = c,
                       ![k].position = endPosition(others, c)]
       ELSE [x \in DOMAIN ts |->
               IF x = k
                 THEN [ts[k] EXCEPT !.column = c, !.position = position]
               ELSE IF ts[x].column = c /\ ts[x].position >= position
                 THEN [ts[x] EXCEPT !.position = @ + 1]
               ELSE ts[x]]

\* PATCH /api/tasks/:id/move: the task and the target column exist and
\* the caller has role member or more on the target column's board.
moveTask(p, k, c, position) ==
  /\ IF k \notin DOMAIN tasks \/ c \notin DOMAIN columns
       THEN /\ res' = Response("moveTask", p, k, 404, {})
            /\ UNCHANGED tasks
     ELSE IF roleRank(taskRole(p, c)) < roleRank("member")
       THEN /\ res' = Response("moveTask", p, k, 403, {})
            /\ UNCHANGED tasks
     ELSE /\ \A x \in DOMAIN tasks :
               movedTasks(tasks, k, c, position)[x].position <= MaxPosition
          /\ tasks' = movedTasks(tasks, k, c, position)
          /\ res' = Response("moveTask", p, k, 200, {})
  /\ UNCHANGED <<teams, boards, columns, nextId, authVars, calls>>

NextMove ==
  \/ \E p \in Users, c \in ColumnInputs :
       nextId.task <= MaxSiblings /\ createTask(p, c)
  \/ \E p \in Users, k \in 1 .. (MaxSiblings + 1), c \in ColumnInputs,
        position \in PositionInputs :
       moveTask(p, k, c, position)

SpecMove == InitTasks /\ [][NextMove]_vars

\* ------------------------------------- complete, reopen, assign, unassign
\* The caller may change the status of task k: they are its assignee, or
\* have role member or more on its board.
mayChangeStatus_anyone(p, k) == TRUE

mayChangeStatus(p, k) ==
  \/ tasks[k].assignee = p
  \/ roleRank(taskRole(p, tasks[k].column)) >= roleRank("member")

\* PATCH /api/tasks/:id/complete and /reopen: Open -> Completed and back.
setCompleted(op, p, k, completed) ==
  /\ IF k \notin DOMAIN tasks
       THEN /\ res' = Response(op, p, k, 404, {})
            /\ UNCHANGED tasks
     ELSE IF ~mayChangeStatus(p, k)
       THEN /\ res' = Response(op, p, k, 403, {})
            /\ UNCHANGED tasks
     ELSE /\ tasks' = [tasks EXCEPT ![k].completed = completed]
          /\ res' = Response(op, p, k, 200, {})
  /\ UNCHANGED <<teams, boards, columns, nextId, authVars, calls>>

completeTask(p, k) == setCompleted("completeTask", p, k, TRUE)
reopenTask(p, k) == setCompleted("reopenTask", p, k, FALSE)

\* PATCH /api/tasks/:id/assign and /unassign: role member or more,
\* whoever the current assignee is.
setAssignee(op, p, k, assignee) ==
  /\ IF k \notin DOMAIN tasks
       THEN /\ res' = Response(op, p, k, 404, {})
            /\ UNCHANGED tasks
     ELSE IF roleRank(taskRole(p, tasks[k].column)) < roleRank("member")
       THEN /\ res' = Response(op, p, k, 403, {})
            /\ UNCHANGED tasks
     ELSE /\ tasks' = [tasks EXCEPT ![k].assignee = assignee]
          /\ res' = Response(op, p, k, 200, {})
  /\ UNCHANGED <<teams, boards, columns, nextId, authVars, calls>>

assignTask(p, k, q) == setAssignee("assignTask", p, k, q)
unassignTask(p, k) == setAssignee("unassignTask", p, k, Undefined)

NextStatus ==
  \/ \E p, q \in Users, role \in GrantableRoles : addBoardMember(p, 1, q, role)
  \/ \E p \in Users, c \in ColumnInputs :
       nextId.task <= MaxTasks /\ createTask(p, c)
  \/ \E p \in Users, k \in 1 .. (MaxTasks + 1) : completeTask(p, k)
  \/ \E p \in Users, k \in 1 .. (MaxTasks + 1) : reopenTask(p, k)
  \/ \E p, q \in Users, k \in 1 .. (MaxTasks + 1) : assignTask(p, k, q)
  \/ \E p \in Users, k \in 1 .. (MaxTasks + 1) : unassignTask(p, k)

SpecStatus == InitTasks /\ [][NextStatus]_vars

\* ================================================================ claims
\* The descendants of board b: its columns, and the tasks in them.
ColumnsOf(b) == {c \in DOMAIN columns : columns[c].board = b}
TasksOf(b) == {k \in DOMAIN tasks : tasks[k].column \in ColumnsOf(b)}

ReadOps == {"getBoards", "getBoardById", "getBoardsByTeam"}

\* C1: once deleteBoard(b) has answered success, the board is gone, no
\* column has board = b and no task sits in a column of b.
C1_DeleteBoardCascades ==
  (res.op = "deleteBoard" /\ res.status = 200) =>
    /\ res.id \notin DOMAIN boards
    /\ ColumnsOf(res.id) = {}
    /\ TasksOf(res.id) = {}

\* C2: deleteBoard by a principal whose role on the board is "member"
\* (the board's creator included) is answered 403 and the board stays.
\* The owner of the board's team is left to C3.
C2_MemberCannotDeleteBoard ==
  [][\A p \in Users, id \in 1 .. MaxBoards :
       (/\ resolveRoleBoard(p, id) = "member"
        /\ resolveRoleTeam(p, boards[id].team) # "owner"
        /\ deleteBoard(p, id)) =>
         (res'.status = 403 /\ id \in DOMAIN boards')]_vars

\* C3: deleteBoard(b) by the owner of b's team succeeds, whoever created
\* b, and removes b with its columns and tasks.
C3_TeamOwnerDeletesBoard ==
  [][\A p \in Users, id \in 1 .. MaxBoards :
       (/\ id \in DOMAIN boards
        /\ resolveRoleTeam(p, boards[id].team) = "owner"
        /\ deleteBoard(p, id)) =>
         (/\ res'.status = 200
          /\ id \notin DOMAIN boards'
          /\ \A c \in DOMAIN columns' : columns'[c].board # id
          /\ \A k \in DOMAIN tasks' :
               tasks'[k].column \in DOMAIN columns' =>
                 columns'[tasks'[k].column].board # id)]_vars

\* C4: a board that createBoard persisted was created by a principal whose
\* role on the target team is at least "member" (create-child).
C4_CreateBoardNeedsMember ==
  (res.op = "createBoard" /\ res.status = 201) =>
    authorize(resolveRoleTeam(res.user, boards[res.id].team), "create-child")

\* C5: createBoard with no team id answers 400, with a team id that does
\* not resolve to a team 404, and in both cases leaves the boards as they
\* were; a board it persists references a team that exists.
C5_CreateBoardParentChecked ==
  [][\A p \in Users, name \in CreateNames,
        team \in IdInputs(MaxTeams), teamId \in IdInputs(MaxTeams) :
       createBoard(p, name, Undefined, team, teamId) =>
         LET tid == IF truthy(team) THEN team ELSE teamId IN
         IF tid \in DOMAIN teams
           THEN \A b \in DOMAIN boards' \ DOMAIN boards : boards'[b].team = tid
           ELSE /\ res'.status = (IF truthy(tid) THEN 404 ELSE 400)
                /\ boards' = boards]_vars

\* C6: a successful read returns no board on which, and on whose team, the
\* caller has no role.
C6_ReadNeedsRole ==
  (res.op \in ReadOps /\ res.status = 200) =>
    \A b \in res.data :
      \/ resolveRoleBoard(res.user, b) # "none"
      \/ resolveRoleTeam(res.user, boards[b].team) # "none"

\* C7: getBoardById answers success to the board's creator and to every
\* member of the board's team.
C7_TeamMemberReadsBoard ==
  (/\ res.op = "getBoardById"
   /\ res.id \in DOMAIN boards
   /\ \/ boards[res.id].createdBy = res.user
      \/ resolveRoleTeam(res.user, boards[res.id].team) # "none") =>
    res.status = 200

\* C8: updateBoard on an existing board succeeds exactly when the caller's
\* role on the board is at least "member".
C8_UpdateBoardByRole ==
  (res.op = "updateBoard" /\ res.id \in DOMAIN boards) =>
    (res.status = 200 <=> authorize(effectiveRole(res.user, res.id), "update"))

\* C9: on every board, when the handlers' check lets a principal with role
\* R through, it lets every principal with a role above R through.
C9_AuthorizationMonotonic ==
  \A b \in DOMAIN boards : \A p \in Users, q \in Users :
    (/\ effectiveRole(p, b) \in Roles
     /\ roleRank(effectiveRole(q, b)) > roleRank(effectiveRole(p, b))
     /\ isCreator(boards[b], p)) =>
      isCreator(boards[b], q)

\* C10: no step changes the team or the createdBy of a board that stays in
\* the store, and an updateBoard step changes nothing but the name and the
\* description of the board it addresses.
C10_UpdateBoardFrame ==
  [][/\ \A b \in DOMAIN boards \cap DOMAIN boards' :
          /\ boards'[b].team = boards[b].team
          /\ boards'[b].createdBy = boards[b].createdBy
     /\ res'.op = "updateBoard" =>
          /\ DOMAIN boards' = DOMAIN boards
          /\ \A b \in DOMAIN boards :
               /\ boards'[b].members = boards[b].members
               /\ b # res'.id => boards'[b] = boards[b]
          /\ UNCHANGED <<teams, columns, tasks, nextId, authVars, calls>>]_vars

\* C10 witness: an updateBoard has succeeded and renamed the board.
C10_Witness ==
  /\ res.op = "updateBoard"
  /\ res.status = 200
  /\ res.id \in DOMAIN boards
  /\ boards[res.id].name = "n2"
  /\ boards[res.id].description = "d1"

\* C11: getBoardById on a board whose team is gone answers 404, here for
\* the board's creator, whom the handler lets through.
C11_OrphanBoardNotFound ==
  (/\ res.op = "getBoardById"
   /\ res.id \in DOMAIN boards
   /\ boards[res.id].team \notin DOMAIN teams
   /\ boards[res.id].createdBy = res.user) =>
    res.status = 404

\* C13: deleteBoard repeated on the board that the deleteBoard before it
\* removed answers success and leaves the store as it is.
C13_DeleteBoardIdempotent ==
  [][\A p \in Users, id \in 1 .. MaxBoards :
       (/\ res.op = "deleteBoard" /\ res.status = 200 /\ res.id = id
        /\ deleteBoard(p, id)) =>
         (res'.status = 200 /\ boards' = boards)]_vars

\* C14: getBoards returns exactly the boards the caller created or that
\* belong to a team the caller is a member of.
C14_GetBoardsExact ==
  (res.op = "getBoards" /\ res.status = 200) =>
    res.data = {b \in DOMAIN boards :
                  \/ boards[b].createdBy = res.user
                  \/ resolveRoleTeam(res.user, boards[b].team) # "none"}

\* C12: when the email cannot be sent, signup, forgotPassword and
\* resetPassword still answer success for the user they found or changed.
C12_NotifierFailureNotEscalated ==
  [][/\ \A username \in Usernames, email \in Emails, password \in SignupPasswords :
          (users' # users /\ signup(username, email, password, FALSE)) =>
            res'.status = 201
     /\ \A email \in Emails :
          (res'.op = "forgotPassword" /\ res'.user # 0
             /\ forgotPassword(email, FALSE)) => res'.status = 200
     /\ \A token \in 0 .. MaxResets, password \in ResetPasswords :
          (users' # users /\ resetPassword(token, password, FALSE)) =>
            res'.status = 200]_vars

\* Some user's stored refresh token is r.
refreshTokenStored(us, r) == \E u \in DOMAIN us : us[u].refreshToken = r

\* C15: logout(r) leaves r stored with no user; while r is stored with no
\* user a refresh presenting r is answered 403 and issues nothing; and r
\* gets stored again only by a login, loginGold or refresh that issues r
\* anew.
C15_LogoutInvalidatesRefreshToken ==
  [][\A r \in RefreshTokenInputs \ {NoToken} :
       /\ \A p \in DOMAIN users :
            (res'.op = "logout" /\ logout(p, r)) =>
              ~refreshTokenStored(users', r)
       /\ (/\ res'.op = "refreshToken"
           /\ ~refreshTokenStored(users, r)
           /\ refreshTokenHandler(r)) =>
            (res'.status = 403 /\ issued' = issued /\ users' = users)
       /\ (~refreshTokenStored(users, r) /\ refreshTokenStored(users', r)) =>
            /\ res'.op \in {"login", "loginGold", "refreshToken"}
            /\ res'.status = 200
            /\ r = Token("refresh", res'.user, clock.now)]_vars

\* C15 witness: a logout presented a refresh token that a user held, and
\* cleared it.
C15_Witness ==
  /\ res.op = "logout"
  /\ res.id.kind = "refresh"
  /\ res.data = {"Logged out successfully"}
  /\ ~refreshTokenStored(users, res.id)

\* The users whose stored reset token is the hash of `token` and has not
\* expired.
resetTokenHolders(token) ==
  {u \in DOMAIN users : /\ users[u].resetPasswordToken = <<"sha256", token>>
                        /\ users[u].resetPasswordExpire > clock.now}

\* C16 as stated: resetPassword changes only a user whose stored reset
\* token is the hash of the presented one and unexpired; with any other
\* token it answers 400 "Invalid or expired token" and changes no user.
C16_ResetNeedsValidToken ==
  [][\A token \in 0 .. MaxResets, password \in ResetPasswords, mailOk \in BOOLEAN :
       (res'.op = "resetPassword" /\ resetPassword(token, password, mailOk)) =>
         /\ \A u \in DOMAIN users :
              users'[u] # users[u] => u \in resetTokenHolders(token)
         /\ resetTokenHolders(token) = {} =>
              /\ res'.status = 400
              /\ res'.data = {"Invalid or expired token"}
              /\ users' = users]_vars

\* C16 amended: the same, the 400 being "Invalid or expired token" when a
\* password came with the request and "Please provide token and new
\* password" when none did.
C16_ResetNeedsValidToken_Amended ==
  [][\A token \in 0 .. MaxResets, password \in ResetPasswords, mailOk \in BOOLEAN :
       (res'.op = "resetPassword" /\ resetPassword(token, password, mailOk)) =>
         /\ \A u \in DOMAIN users :
              users'[u] # users[u] =>
                /\ u \in resetTokenHolders(token)
                /\ users'[u].password = <<"bcrypt", password>>
         /\ resetTokenHolders(token) = {} =>
              /\ res'.status = 400
              /\ res'.data = IF password = ""
                               THEN {"Please provide token and new password"}
                               ELSE {"Invalid or expired token"}
              /\ users' = users]_vars

\* C16 witness: a reset was refused as "Invalid or expired token" while a
\* user's reset token was stored and expired.
C16_Witness ==
  /\ res.op = "resetPassword"
  /\ res.data = {"Invalid or expired token"}
  /\ \E u \in DOMAIN users :
       /\ users[u].resetPasswordToken # NoHash
       /\ users[u].resetPasswordExpire <= clock.now

\* The token is an access token issued less than 15 minutes ago.
accessTokenVerifies(token) ==
  token.kind = "access" /\ clock.now < token.iat + AccessTokenMinutes

\* C17: the handler behind authenticateToken runs only when the token
\* verifies, with req.user.id the id in the token; no token is answered
\* 401, a token that does not verify 403, and the handler does not run.
C17_HandlerNeedsVerifiedToken ==
  [][\A token \in AccessTokenInputs :
       (res'.op = "getMe" /\ getMe(token)) =>
         /\ "getMe" \in res'.data =>
              (accessTokenVerifies(token) /\ res'.user = token.id)
         /\ token = NoToken => (res'.status = 401 /\ res'.data = {})
         /\ (token # NoToken /\ ~accessTokenVerifies(token)) =>
              (res'.status = 403 /\ res'.data = {})]_vars

\* C17 witness: the handler ran for a token that was issued earlier and
\* has not expired.
C17_Witness ==
  /\ res.op = "getMe"
  /\ "getMe" \in res.data
  /\ res.user \in DOMAIN users
  /\ clock.now > 0
  /\ \A x \in issued : x.id = res.user => x.iat = 0

ordering(ts, c) ==
  {<<a, b>> \in (DOMAIN ts) \X (DOMAIN ts) :
     /\ ts[a].column = c /\ ts[b].column = c
     /\ \/ ts[a].position < ts[b].position
        \/ ts[a].position = ts[b].position /\ a < b}

\* C19: after moveTask(k, c, position) succeeded, the same move applied
\* again leaves the tasks of column c, and of every other column, in the
\* order the first one left them in.
C19_MoveTaskIdempotent ==
  [][\A p \in Users, k \in DOMAIN tasks, c \in DOMAIN columns,
        position \in PositionInputs :
       (res'.op = "moveTask" /\ res'.status = 200
          /\ moveTask(p, k, c, position)) =>
         \A d \in DOMAIN columns :
           ordering(movedTasks(tasks', k, c, position), d) = ordering(tasks', d)]_vars

\* C19 witness: a task was moved between two others of its new column and
\* tasks of that column were shifted.
C19_Witness ==
  /\ res.op = "moveTask"
  /\ res.status = 200
  /\ \E a, b \in DOMAIN tasks :
       /\ <<a, res.id>> \in ordering(tasks, tasks[res.id].column)
       /\ <<res.id, b>> \in ordering(tasks, tasks[res.id].column)
       /\ tasks[b].position > tasks[res.id].position + 1

\* C20: a task's completed flag is a boolean; it goes from open to
\* completed only by a complete and back only by a reopen, either made by
\* the assignee or by a principal with role member or more; assign and
\* unassign change the assignee alone, and nothing else changes it.
C20_TaskStatusMachine ==
  [][\A k \in DOMAIN tasks' :
       /\ tasks'[k].completed \in BOOLEAN
       /\ k \in DOMAIN tasks =>
            /\ tasks'[k].completed # tasks[k].completed =>
                 /\ res'.id = k
                 /\ res'.status = 200
                 /\ res'.op = IF tasks'[k].completed THEN "completeTask"
                                                     ELSE "reopenTask"
                 /\ \/ res'.user = tasks[k].assignee
                    \/ roleRank(effectiveRole(res'.user,
                                  columns[tasks[k].column].board)) >= 2
            /\ res'.op \in {"assignTask", "unassignTask"} =>
                 [tasks'[k] EXCEPT !.assignee = 0] = [tasks[k] EXCEPT !.assignee = 0]
            /\ tasks'[k].assignee # tasks[k].assignee =>
                 /\ res'.op \in {"assignTask", "unassignTask"}
                 /\ res'.id = k
                 /\ res'.status = 200
                 /\ (res'.op = "unassignTask" => tasks'[k].assignee = Undefined)]_vars

\* C20 witness: a completed task whose assignee, a viewer of the board,
\* completed it.
C20_Witness ==
  /\ res.op = "completeTask"
  /\ res.status = 200
  /\ res.id \in DOMAIN tasks
  /\ tasks[res.id].completed
  /\ tasks[res.id].assignee = res.user
  /\ effectiveRole(res.user, columns[tasks[res.id].column].board) = "viewer"

\* C21: a successful login, loginGold or refresh of a user leaves the
\* refresh token that user had stored before it stored with no user, so
\* that presenting it again is answered 403.
C21_EarlierRefreshTokenRejected ==
  [][\A r \in RefreshTokenInputs \ {NoToken} :
       (/\ res'.op \in {"login", "loginGold", "refreshToken"}
        /\ res'.status = 200
        /\ res'.user = r.id
        /\ refreshTokenStored(users, r)) =>
         ~refreshTokenStored(users', r)]_vars

\* C22: the refresh token of a successful signup or login response,
\* presented in the very next request, is accepted.
C22_HandedOutTokenAccepted ==
  [][\A r \in RefreshTokenInputs :
       (/\ res.op \in {"signup", "login"}
        /\ res.status \in {200, 201}
        /\ r = Token("refresh", res.user, clock.now)
        /\ res'.op = "refreshToken"
        /\ refreshTokenHandler(r)) =>
         res'.status = 200]_vars

C24_LogoutOwnTokenOnly ==
  [][\A p \in DOMAIN users, r \in RefreshTokenInputs :
       (res'.op = "logout" /\ logout(p, r)) =>
         \A u \in DOMAIN users \ {p} :
           users'[u].refreshToken = users[u].refreshToken]_vars

\* C26: a reset that succeeded with token k leaves k matching no user; a
\* token that was issued and matches no user never matches one again, a
\* later forgotPassword included, and a reset presenting it is answered
\* 400 and changes no user; a reset refused for a short password leaves
\* the users as they were, so its token still matches.
C26_ResetTokenSingleUse ==
  [][\A k \in 1 .. MaxResetTokens :
       /\ \A password \in ResetPasswords, mailOk \in BOOLEAN :
            (res'.op = "resetPassword" /\ resetPassword(k, password, mailOk)) =>
              /\ users' # users => (resetTokenHolders(k))' = {}
              /\ resetTokenHolders(k) = {} =>
                   (res'.status = 400 /\ users' = users)
              /\ (password # "" /\ Len(password) < 8) =>
                   (res'.status = 400 /\ users' = users)
       /\ (k < nextId.nonce /\ resetTokenHolders(k) = {}) =>
            (resetTokenHolders(k))' = {}]_vars

\* C26 witness: token 1 changed a password, a new forgotPassword stored
\* token 2 for the same user, and a reset presenting token 1 again was
\* refused.
C26_Witness ==
  /\ res.op = "resetPassword"
  /\ res.status = 400
  /\ res.id = 1
  /\ res.data = {"Invalid or expired token"}
  /\ \E u \in DOMAIN users :
       /\ users[u].password = <<"bcrypt", "password2">>
       /\ users[u].resetPasswordToken = <<"sha256", 2>>
       /\ users[u].resetPasswordExpire > clock.now

C27_DeletedBoardStaysDeleted ==
  [][/\ (res'.op = "deleteBoard" /\ res'.status = 200) =>
          res'.id \notin DOMAIN boards'
     /\ \A id \in 1 .. MaxBoards :
          (id < nextId.board /\ id \notin DOMAIN boards) =>
            id \notin DOMAIN boards'
     /\ \A i \in 1 .. MaxCalls :
          (/\ calls[i].pc = "board.save"
           /\ calls'[i] = Idle
           /\ res'.status = 200
           /\ calls[i].paths # {}) =>
            /\ calls[i].id \in DOMAIN boards'
            /\ \A f \in calls[i].paths :
                 boards'[calls[i].id][f] = calls[i].doc[f]]_vars

\* C27 witness: an updateBoard that had loaded the board came to its save
\* after a deleteBoard had deleted the board, and was answered 500.
C27_Witness ==
  /\ res.op = "updateBoard"
  /\ res.status = 500
  /\ isObjectId(res.id)
  /\ res.id < nextId.board
  /\ res.id \notin DOMAIN boards
  /\ \A i \in 1 .. MaxCalls : calls[i] = Idle
====
